---- MODULE Spec2Model ----
(***************************************************************************)
(* Eccomi Proxy v1.7 (src/main.py): the App Proxy signature verifier and   *)
(* the capture handler that tags a customer through the Admin GraphQL API. *)
(*                                                                         *)
(* Strings are sequences of characters (one-character strings).  A query   *)
(* parameter name is written as one token, and a code point outside ASCII  *)
(* is written as the token "U+xxxx".  A URL is held already split into its *)
(* path and the ordered (name, value) pairs of its query component, the    *)
(* values percent-decoded as parse_qsl returns them.                       *)
(***************************************************************************)
EXTENDS Naturals, Sequences, FiniteSets

VARIABLES
    \* --- the verifier alone (SpecVerify)
    full_url,        \* [path, query]: the argument of verify_app_proxy_request
    shared_secret,   \* its second argument
    result,          \* what the call produced
    phase,           \* "input" | "verified" | "tampered" | "off"
    \* --- the server (Spec)
    VERIFY_APP_PROXY_HMAC,  \* main.py:27
    APP_SHARED_SECRET,      \* main.py:26
    DEFAULT_CAPTURE_TAG,    \* main.py:35
    admin_env,              \* SHOP_DOMAIN and SHOP_ADMIN_TOKEN both set (main.py:30-31)
    req,             \* the inbound request: [path, query, body]
    pc,              \* "pending" | "done" | "off"
    response,        \* the HTTP outcome of the request
    did              \* what the handler did on the way: calls made, values computed

vars == << full_url, shared_secret, result, phase,
           VERIFY_APP_PROXY_HMAC, APP_SHARED_SECRET, DEFAULT_CAPTURE_TAG, admin_env,
           req, pc, response, did >>

verifier_vars == << full_url, shared_secret, result, phase >>
server_vars == << VERIFY_APP_PROXY_HMAC, APP_SHARED_SECRET, DEFAULT_CAPTURE_TAG, admin_env,
                  req, pc, response, did >>

\* ---------------------------------------------------------------- bounds

\* The number of query parameters, signature aside, of a URL given to the verifier.
MaxParams == 2

\* ------------------------------------------------------------ characters

\* str.isdigit(): the ASCII digits and the other Unicode digits (ARABIC-INDIC THREE).
Digits == {"0", "1", "2", "3", "4", "5", "6", "7", "8", "9", "U+0663"}

\* str.strip() with no argument strips whitespace.
Whitespace == {" "}

\* Code points hmac.compare_digest refuses in a str argument.
NonAscii == {"U+00E9", "U+0663"}

isdigit(ch) == ch \in Digits

IsAscii(s) == \A i \in DOMAIN s : s[i] \notin NonAscii

\* The literal of main.py:84.
TRUSTED_SUFFIX ==
    << "e","c","c","o","m","i","o","n","l","i","n","e",".",
       "m","y","s","h","o","p","i","f","y",".","c","o","m" >>

endswith(s, suffix) ==
    /\ Len(s) >= Len(suffix)
    /\ SubSeq(s, Len(s) - Len(suffix) + 1, Len(s)) = suffix

\* Python's order on the parameter names the model uses (code point order).
KeyOrder ==
    << "a", "b", "cid", "email", "logged_in_customer_id", "shop",
       "signature", "tag", "tags" >>

KeyRank(k) == CHOOSE i \in DOMAIN KeyOrder : KeyOrder[i] = k

\* ----------------------------------------------------- query and canonical

\* dict(parse_qsl(query, keep_blank_values=True)): a repeated name keeps its
\* last value; a blank value is kept as the empty string.
parse_qsl_dict(pairs) ==
    [ k \in { pairs[i][1] : i \in DOMAIN pairs } |->
        LET last == CHOOSE i \in DOMAIN pairs :
                        /\ pairs[i][1] = k
                        /\ \A j \in DOMAIN pairs : pairs[j][1] = k => j <= i
        IN  pairs[last][2] ]

\* The names of a set in sorted order (list.sort / sorted by key).
RECURSIVE SortedKeys(_)
SortedKeys(S) ==
    IF S = {} THEN << >>
    ELSE LET m == CHOOSE k \in S : \A o \in S : KeyRank(k) <= KeyRank(o)
         IN  << m >> \o SortedKeys(S \ {m})

\* "&".join(f"{k}={v}" for k in ks)
RECURSIVE JoinAmp(_, _)
JoinAmp(d, ks) ==
    IF ks = << >> THEN << >>
    ELSE LET k == Head(ks)
             kv == << k, "=" >> \o d[k]
         IN  IF Tail(ks) = << >> THEN kv
             ELSE kv \o << "&" >> \o JoinAmp(d, Tail(ks))

\* A buggy canonical string: the parameters in an arbitrary fixed order (the
\* reverse of the sorted one) instead of sorted by name.
RECURSIVE Reverse(_)
Reverse(s) == IF s = << >> THEN << >> ELSE Reverse(Tail(s)) \o << Head(s) >>

canonical_unsorted(params) == JoinAmp(params, Reverse(SortedKeys(DOMAIN params)))

\* main.py:97, the canonical string verify_app_proxy_request signs.
canonical_string(params) == JoinAmp(params, SortedKeys(DOMAIN params))

\* main.py:60-63
sorted_qs_without_signature(params) ==
    LET items == [ k \in DOMAIN params \ {"signature"} |-> params[k] ]
    IN  JoinAmp(items, SortedKeys(DOMAIN items))

\* hmac.new(key, msg, sha256).hexdigest(): a non-empty ASCII string, taken to be
\* collision free: the digest determines the key and the message.
hmac_sha256_hexdigest(key, msg) == << "hmac-sha256:" >> \o key \o << ":" >> \o msg

\* main.py:65-66
hex_hmac(secret, msg) == hmac_sha256_hexdigest(secret, msg)

\* A buggy comparison: accepts any two ASCII strings that agree on all but
\* their last character (a partial match).
compare_digest_partial(a, b) ==
    IF ~(IsAscii(a) /\ IsAscii(b)) THEN "TypeError"
    ELSE IF a = b THEN "equal"
    ELSE IF /\ Len(a) = Len(b)
            /\ Len(a) > 0
            /\ SubSeq(a, 1, Len(a) - 1) = SubSeq(b, 1, Len(b) - 1) THEN "equal"
    ELSE "differ"

\* hmac.compare_digest on two str: a TypeError when either holds a non-ASCII
\* character, else whether they are equal.
compare_digest(a, b) ==
    IF ~(IsAscii(a) /\ IsAscii(b)) THEN "TypeError"
    ELSE IF a = b THEN "equal"
    ELSE "differ"

\* ---------------------------------------------------------------- verifier

\* main.py:84
trusted_shop(shop) == endswith(shop, TRUSTED_SUFFIX)

\* main.py:90, "not shared_secret or not provided"
missing_secret_or_signature(secret, q) ==
    \/ secret = << >>
    \/ "signature" \notin DOMAIN q
    \/ q["signature"] = << >>

\* The call did not return: an exception of this type left it.
Raised(exc) ==
    [ exc |-> exc, ok |-> FALSE, mode |-> "None", hint |-> "None", shop |-> << >> ]

\* main.py:68-107
verify_app_proxy_request(url, secret) ==
    LET q == parse_qsl_dict(url.query)
        shop == IF "shop" \in DOMAIN q THEN q["shop"] ELSE << >>
        not_provided == "signature" \notin DOMAIN q \/ q["signature"] = << >>
        result0 == [ exc |-> "none", ok |-> FALSE, mode |-> "None",
                     hint |-> "None", shop |-> shop ]
        result1 == IF trusted_shop(shop)
                   THEN [ result0 EXCEPT !.ok = TRUE, !.hint = "trusted-shop" ]
                   ELSE result0
        params == [ k \in DOMAIN q \ {"signature"} |-> q[k] ]
        canonical == canonical_string(params)
        digest == hmac_sha256_hexdigest(secret, canonical)
        cmp == compare_digest(digest, q["signature"])
    IN  IF trusted_shop(shop) /\ not_provided THEN result1
        ELSE IF missing_secret_or_signature(secret, q)
             THEN [ result1 EXCEPT !.hint = "missing_secret_or_signature" ]
        ELSE IF cmp = "TypeError" THEN Raised("TypeError")
        ELSE IF cmp = "equal"
             THEN [ result1 EXCEPT !.ok = TRUE, !.mode = "canonical",
                                   !.hint = "signature_valid" ]
        ELSE [ result1 EXCEPT !.hint = "firma_mancante/non_valida" ]

\* The call returned (no exception) with ok = true.
ReturnsOk(r) == r.exc = "none" /\ r.ok

\* ------------------------------------------------------ inputs (verifier)

Str_other_shop == << "x", ".", "c", "o", "m" >>
Str_lookalike_shop == << "n", "o", "t" >> \o TRUSTED_SUFFIX
Str_suffix_then_more == TRUSTED_SUFFIX \o << ".", "x" >>

Paths == { << "/proxy/capture-customer" >>, << "/hmac-check" >> }

Secrets == { << >>, << "s" >>, << "k", "2" >> }

\* The parameters a URL may carry beside its signature.
PlainPairs ==
    { << "shop", v >> : v \in { TRUSTED_SUFFIX, Str_other_shop, Str_suffix_then_more } }
      \cup { << "a", << "1" >> >>, << "b", << >> >>, << "a", << "2", "&" >> >> }

RECURSIVE SeqsUpTo(_, _)
SeqsUpTo(S, n) ==
    IF n = 0 THEN { << >> }
    ELSE LET shorter == SeqsUpTo(S, n - 1)
         IN  shorter \cup { Append(s, x) : s \in { t \in shorter : Len(t) = n - 1 }, x \in S }

\* The path-prefixed message of the "with-path" convention: P + "?" + canonical
\* (the bare path when the canonical string is empty).
with_path(path, canonical) ==
    IF canonical = << >> THEN path ELSE path \o << "?" >> \o canonical

\* A string with its last character replaced (one character of a digest flipped).
FlipLast(s) == SubSeq(s, 1, Len(s) - 1) \o << "~" >>

\* The signature values tried for a URL with parameters `pairs`.
SignatureValues(path, pairs, secret) ==
    LET q == parse_qsl_dict(pairs)
        amp == sorted_qs_without_signature(q)
        good == hex_hmac(secret, amp)
    IN  { << >>,                                  \* signature=
          << "0", "f" >>,                         \* not a digest
          << "U+00E9" >>,                         \* signature=%C3%A9
          good,                                   \* ampersand-joined, no path
          hex_hmac(secret, with_path(path, amp)), \* ampersand-joined, with path
          hex_hmac(<< "o" >>, amp),               \* signed with another secret
          FlipLast(good) }

InsertAt(s, i, x) == SubSeq(s, 1, i) \o << x >> \o SubSeq(s, i + 1, Len(s))

\* The query of `url` with the value of every signature parameter replaced.
ReplaceSignature(url, s) ==
    [ url EXCEPT !.query =
        [ i \in DOMAIN url.query |->
            IF url.query[i][1] = "signature" THEN << "signature", s >>
            ELSE url.query[i] ] ]

\* The server's variables while the verifier is examined alone.
ServerOff ==
    /\ VERIFY_APP_PROXY_HMAC = TRUE
    /\ APP_SHARED_SECRET = << >>
    /\ DEFAULT_CAPTURE_TAG = << >>
    /\ admin_env = FALSE
    /\ req = [ path |-> << >>, query |-> << >> ]
    /\ pc = "off"
    /\ response = [ status |-> 0 ]
    /\ did = [ verify_calls |-> 0 ]

\* Every URL with at most MaxParams parameters from PlainPairs in any order,
\* with no signature or with one of SignatureValues at any position.
InitVerify ==
    /\ ServerOff
    /\ \E secret \in Secrets, p \in Paths, b \in SeqsUpTo(PlainPairs, MaxParams) :
         /\ shared_secret = secret
         /\ \/ full_url = [ path |-> p, query |-> b ]
            \/ \E s \in SignatureValues(p, b, secret), i \in 0 .. MaxParams :
                 /\ i <= Len(b)
                 /\ full_url = [ path |-> p,
                                 query |-> InsertAt(b, i, << "signature", s >>) ]
    /\ result = Raised("not called")
    /\ phase = "input"

\* One call of verify_app_proxy_request(full_url, shared_secret).
Verify ==
    /\ phase = "input"
    /\ result' = verify_app_proxy_request(full_url, shared_secret)
    /\ phase' = "verified"
    /\ UNCHANGED << full_url, shared_secret >>
    /\ UNCHANGED server_vars

\* After a call that accepted the signature (mode "canonical"): the same URL
\* with the signature value replaced by a different one, verified again.
Tamper ==
    /\ phase = "verified"
    /\ result.exc = "none"
    /\ result.mode = "canonical"
    /\ \E s \in SignatureValues(full_url.path, full_url.query, shared_secret) :
         /\ s # parse_qsl_dict(full_url.query)["signature"]
         /\ full_url' = ReplaceSignature(full_url, s)
         /\ result' = verify_app_proxy_request(ReplaceSignature(full_url, s), shared_secret)
    /\ phase' = "tampered"
    /\ UNCHANGED shared_secret
    /\ UNCHANGED server_vars

NextVerify == Verify \/ Tamper

SpecVerify == InitVerify /\ [][NextVerify]_vars

\* ------------------------------------------------------------ JSON values

\* A value of Python as the handler meets it: None, a str, an int.
JNone == [ t |-> "None", s |-> << >>, n |-> 0 ]
JStr(s) == [ t |-> "str", s |-> s, n |-> 0 ]
JInt(n) == [ t |-> "int", s |-> << >>, n |-> n ]

\* Python's truth value: None, "" and 0 are false.
truthy(v) == (v.t = "str" /\ v.s # << >>) \/ (v.t = "int" /\ v.n # 0)

\* What `await req.json()` returned: a JSON object with its customer_id and
\* email fields (JNone: the field is absent), or a value of another type.
JObject(customer_id, email) == [ t |-> "dict", customer_id |-> customer_id, email |-> email ]
JOther(type) == [ t |-> type, customer_id |-> JNone, email |-> JNone ]

\* main.py:189-192: a body that is absent or is not JSON gives {}.
parse_body(body) == IF body.json THEN body.value ELSE JObject(JNone, JNone)

\* qp.get(k)
qp_get(qp, k) == IF k \in DOMAIN qp THEN JStr(qp[k]) ELSE JNone

\* ------------------------------------------------------------- str methods

RECURSIVE lstrip(_)
lstrip(s) ==
    IF s # << >> /\ Head(s) \in Whitespace THEN lstrip(Tail(s)) ELSE s

RECURSIVE rstrip(_)
rstrip(s) ==
    IF s # << >> /\ s[Len(s)] \in Whitespace THEN rstrip(SubSeq(s, 1, Len(s) - 1)) ELSE s

\* str.strip()
strip(s) == rstrip(lstrip(s))

\* "".join(ch for ch in raw if ch.isdigit())
digits_of(s) == SelectSeq(s, isdigit)

\* str.split(","): the pieces between the commas, empty ones included.
RECURSIVE split_comma(_, _)
split_comma(s, piece) ==
    IF s = << >> THEN << piece >>
    ELSE IF Head(s) = "," THEN << piece >> \o split_comma(Tail(s), << >>)
    ELSE split_comma(Tail(s), Append(piece, Head(s)))

\* [t.strip() for t in pieces if t.strip()]
RECURSIVE stripped_nonempty(_)
stripped_nonempty(pieces) ==
    IF pieces = << >> THEN << >>
    ELSE IF strip(Head(pieces)) = << >> THEN stripped_nonempty(Tail(pieces))
    ELSE << strip(Head(pieces)) >> \o stripped_nonempty(Tail(pieces))

\* ------------------------------------------------------------ require_hmac

\* A buggy require_hmac: a result that is not ok is returned, not raised.
require_hmac_lenient(url) ==
    LET vr == verify_app_proxy_request(url, APP_SHARED_SECRET)
        none == Raised("not called")
    IN  IF ~VERIFY_APP_PROXY_HMAC
        THEN [ exc |-> "none", status |-> 0, skipped |-> TRUE, verified |-> FALSE, vr |-> none ]
        ELSE IF APP_SHARED_SECRET = << >>
        THEN [ exc |-> "HTTPException", status |-> 500, skipped |-> FALSE,
               verified |-> FALSE, vr |-> none ]
        ELSE IF vr.exc # "none"
        THEN [ exc |-> vr.exc, status |-> 500, skipped |-> FALSE, verified |-> TRUE, vr |-> vr ]
        ELSE [ exc |-> "none", status |-> 0, skipped |-> FALSE, verified |-> TRUE, vr |-> vr ]

\* A buggy require_hmac: a missing secret skips the check.
require_hmac_skip_no_secret(url) ==
    LET vr == verify_app_proxy_request(url, APP_SHARED_SECRET)
        none == Raised("not called")
    IN  IF ~VERIFY_APP_PROXY_HMAC \/ APP_SHARED_SECRET = << >>
        THEN [ exc |-> "none", status |-> 0, skipped |-> TRUE, verified |-> FALSE, vr |-> none ]
        ELSE IF vr.exc # "none"
        THEN [ exc |-> vr.exc, status |-> 500, skipped |-> FALSE, verified |-> TRUE, vr |-> vr ]
        ELSE IF ~vr.ok
        THEN [ exc |-> "HTTPException", status |-> 403, skipped |-> FALSE,
               verified |-> TRUE, vr |-> vr ]
        ELSE [ exc |-> "none", status |-> 0, skipped |-> FALSE, verified |-> TRUE, vr |-> vr ]

\* main.py:109-117.  exc "none": the call returned (skipped, or the verifier's
\* result); "HTTPException": it raised one with `status`; "TypeError": the
\* verifier's exception left it.
require_hmac(url) ==
    LET vr == verify_app_proxy_request(url, APP_SHARED_SECRET)
        none == Raised("not called")
    IN  IF ~VERIFY_APP_PROXY_HMAC
        THEN [ exc |-> "none", status |-> 0, skipped |-> TRUE, verified |-> FALSE, vr |-> none ]
        ELSE IF APP_SHARED_SECRET = << >>
        THEN [ exc |-> "HTTPException", status |-> 500, skipped |-> FALSE,
               verified |-> FALSE, vr |-> none ]
        ELSE IF vr.exc # "none"
        THEN [ exc |-> vr.exc, status |-> 500, skipped |-> FALSE, verified |-> TRUE, vr |-> vr ]
        ELSE IF ~vr.ok
        THEN [ exc |-> "HTTPException", status |-> 403, skipped |-> FALSE,
               verified |-> TRUE, vr |-> vr ]
        ELSE [ exc |-> "none", status |-> 0, skipped |-> FALSE, verified |-> TRUE, vr |-> vr ]

\* ------------------------------------------------------ extract_customer_id

\* .strip() and the digit filter of main.py:153-155 on the value the `or`
\* chain chose; a value that is no str has no strip().
sanitize(v) ==
    IF v.t # "str" THEN [ exc |-> "AttributeError", value |-> << >> ]
    ELSE [ exc |-> "none", value |-> digits_of(strip(v.s)) ]

\* main.py:152-155.  The `or` chain stops at the first true value, so
\* payload.get is reached only when cid is absent or empty; it raises
\* AttributeError on a payload that is no dict.
extract_customer_id(qp, payload) ==
    IF truthy(qp_get(qp, "cid")) THEN sanitize(qp_get(qp, "cid"))
    ELSE IF payload.t # "dict" THEN [ exc |-> "AttributeError", value |-> << >> ]
    ELSE IF truthy(payload.customer_id) THEN sanitize(payload.customer_id)
    ELSE IF truthy(qp_get(qp, "logged_in_customer_id"))
         THEN sanitize(qp_get(qp, "logged_in_customer_id"))
    ELSE sanitize(JStr(<< >>))

\* ----------------------------------------------------------------- tags

\* main.py:205: qp.get("tags") or qp.get("tag") or DEFAULT_CAPTURE_TAG
raw_tags(qp) ==
    IF truthy(qp_get(qp, "tags")) THEN qp["tags"]
    ELSE IF truthy(qp_get(qp, "tag")) THEN qp["tag"]
    ELSE DEFAULT_CAPTURE_TAG

\* main.py:205-206
tag_list(qp) == stripped_nonempty(split_comma(raw_tags(qp), << >>))

\* -------------------------------------------------------- add_customer_tags

\* What the Admin API call can do: answer 200 with no userErrors, answer 200
\* with userErrors, answer another status, or fail (timeout, network error, a
\* body that is not a JSON object).
Outbound == { "ok", "user_errors", "http_error", "network_error" }

NoTagResult == [ t |-> "empty", ok |-> FALSE, status |-> 0, errors |-> FALSE ]

\* main.py:119-150
add_customer_tags(customer_id_numeric, tags, outbound) ==
    IF ~(admin_env /\ customer_id_numeric # << >>)
    THEN [ t |-> "skipped", ok |-> FALSE, status |-> 0, errors |-> FALSE ]
    ELSE IF outbound = "network_error"
    THEN [ t |-> "network_error", ok |-> FALSE, status |-> 0, errors |-> FALSE ]
    ELSE LET status == IF outbound = "http_error" THEN 502 ELSE 200
             errs == outbound = "user_errors"
         IN  [ t |-> "response", ok |-> (status = 200 /\ ~errs),
               status |-> status, errors |-> errs ]

\* ------------------------------------------------------------ handle_capture

NoneDone ==
    [ require_hmac_calls |-> 0, verify_calls |-> 0, vr |-> Raised("not called"),
      extracted |-> FALSE, customer_id |-> << >>, tag_calls |-> << >>, posts |-> 0 ]

\* A response that is no JSONResponse of the handler: an HTTPException turned
\* into its status, or an exception that escaped (Starlette answers 500).
ErrorResponse(status, exc) ==
    [ status |-> status, exc |-> exc, ok |-> FALSE, via |-> "None", mode |-> "None",
      customer_id |-> JNone, email |-> JNone,
      tagsAdd |-> [ t |-> "absent", ok |-> FALSE, status |-> 0, errors |-> FALSE ] ]

\* main.py:202: qp.get("email") or payload.get("email")
email_of(qp, payload) ==
    IF truthy(qp_get(qp, "email")) THEN [ exc |-> "none", value |-> qp_get(qp, "email") ]
    ELSE IF payload.t # "dict" THEN [ exc |-> "AttributeError", value |-> JNone ]
    ELSE [ exc |-> "none", value |-> payload.email ]

\* main.py:209, "if customer_id:"
should_tag(customer_id) == customer_id # << >>

\* main.py:197, "if via == 'app-proxy':"
checks_hmac(via) == via = "app-proxy"

\* The one element of a singleton set.
Only(S) == CHOOSE x \in S : TRUE

\* require_hmac was not called (the direct alias).
HmacNotCalled ==
    [ exc |-> "none", status |-> 0, skipped |-> FALSE, verified |-> FALSE,
      vr |-> Raised("not called") ]

\* main.py:201-226, from the values of the steps before: the query, the
\* payload, what require_hmac gave and what extract_customer_id gave.
respond(via, outbound, qp, payload, res, cid) ==
    LET d1 == IF checks_hmac(via)
              THEN [ NoneDone EXCEPT !.require_hmac_calls = 1,
                                     !.verify_calls = IF res.verified THEN 1 ELSE 0,
                                     !.vr = res.vr ]
              ELSE NoneDone
        d2 == [ d1 EXCEPT !.extracted = TRUE, !.customer_id = cid.value ]
        email == email_of(qp, payload)
        tags == tag_list(qp)
        tag_result == IF should_tag(cid.value)
                      THEN add_customer_tags(cid.value, tags, outbound)
                      ELSE NoTagResult
        d3 == IF should_tag(cid.value)
              THEN [ d2 EXCEPT
                       !.tag_calls = << [ customer_id |-> cid.value, tags |-> tags ] >>,
                       !.posts = IF tag_result.t = "skipped" THEN 0 ELSE 1 ]
              ELSE d2
    IN  IF res.exc # "none"
        THEN [ response |-> ErrorResponse(res.status, res.exc), did |-> d1 ]
        ELSE IF cid.exc # "none"
        THEN [ response |-> ErrorResponse(500, cid.exc), did |-> d1 ]
        ELSE IF email.exc # "none"
        THEN [ response |-> ErrorResponse(500, email.exc), did |-> d2 ]
        ELSE [ response |->
                 [ status |-> 200, exc |-> "none", ok |-> TRUE, via |-> via,
                   mode |-> "None",
                   customer_id |-> IF cid.value # << >> THEN JStr(cid.value) ELSE JNone,
                   email |-> IF truthy(email.value) THEN email.value ELSE JNone,
                   tagsAdd |-> tag_result ],
               did |-> d3 ]

\* main.py:188-226.  The response it ends in and what it did on the way: the
\* body and the query are read, require_hmac runs for the App Proxy route, the
\* identifier is extracted, and the rest follows from these.  The DEBUG_ECHO
\* fields (received, meta, hmac) copy the inputs and are left out.
handle_capture(request, via, outbound) ==
    Only({ respond(via, outbound, qp, payload, res, cid) :
             qp \in { parse_qsl_dict(request.query) },
             payload \in { parse_body(request.body) },
             res \in { IF checks_hmac(via)
                       THEN require_hmac([ path |-> request.path, query |-> request.query ])
                       ELSE HmacNotCalled },
             cid \in { extract_customer_id(parse_qsl_dict(request.query),
                                           parse_body(request.body)) } })

\* ------------------------------------------------------------- the server

Routes == { << "/capture-customer" >>, << "/proxy/capture-customer" >>, << "/hmac-check" >> }

\* At most one parameter named k, with a value of vals.
Opt(k, vals) == { << >> } \cup { << << k, v >> >> : v \in vals }

Str_tags_two == << "A", ",", " ", "B", " " >>
Str_tags_blank == << ",", ",", " ", "," >>

\* The signature values a request to the server may carry.
ServerSignatureValues(pairs, secret) ==
    { << >>, << "0", "f" >>, << "U+00E9" >>,
      hex_hmac(secret, sorted_qs_without_signature(parse_qsl_dict(pairs))) }

Bodies ==
    { [ json |-> FALSE, value |-> JObject(JNone, JNone) ],              \* absent or malformed
      [ json |-> TRUE, value |-> JObject(JStr(<< "U+0663", "x" >>), JNone) ], \* {"customer_id": "\u0663x"}
      [ json |-> TRUE, value |-> JObject(JInt(42), JNone) ],            \* {"customer_id": 42}
      [ json |-> TRUE, value |-> JOther("list") ] }                     \* []

VerifierOff ==
    /\ full_url = [ path |-> << >>, query |-> << >> ]
    /\ shared_secret = << >>
    /\ result = Raised("not called")
    /\ phase = "off"

\* A configuration read from the environment and one request waiting to be routed.
Init ==
    /\ VerifierOff
    /\ VERIFY_APP_PROXY_HMAC \in BOOLEAN
    /\ APP_SHARED_SECRET \in { << >>, << "s" >> }
    /\ DEFAULT_CAPTURE_TAG \in { << "D" >>, << >> }
    /\ admin_env \in BOOLEAN
    /\ \E path \in Routes,
          shop \in { << << "shop", v >> >> : v \in { Str_lookalike_shop, Str_other_shop } },
          cid \in Opt("cid", { << "4", "a" >>, << "a", "b" >> }),
          lic \in Opt("logged_in_customer_id", { << "7" >> }),
          tags \in Opt("tags", { Str_tags_two, Str_tags_blank }),
          tag \in Opt("tag", { << "C" >> }),
          email \in Opt("email", { << "e" >> }),
          body \in Bodies :
         LET plain == shop \o cid \o lic \o tags \o tag \o email
         IN  /\ path = << "/hmac-check" >> =>
                  /\ plain = shop
                  /\ ~body.json
             /\ \/ req = [ path |-> path, query |-> plain, body |-> body ]
                \/ \E s \in ServerSignatureValues(plain, APP_SHARED_SECRET) :
                     req = [ path |-> path,
                             query |-> Append(plain, << "signature", s >>),
                             body |-> body ]
    /\ pc = "pending"
    /\ response = ErrorResponse(0, "none")
    /\ did = NoneDone

\* main.py:231-234
capture_customer_direct ==
    /\ pc = "pending"
    /\ req.path = << "/capture-customer" >>
    /\ \E outbound \in Outbound :
         \E h \in { handle_capture(req, "direct", outbound) } :
             /\ response' = h.response
             /\ did' = h.did
    /\ pc' = "done"
    /\ UNCHANGED << VERIFY_APP_PROXY_HMAC, APP_SHARED_SECRET, DEFAULT_CAPTURE_TAG,
                    admin_env, req >>
    /\ UNCHANGED verifier_vars

\* main.py:236-239
capture_customer_proxy ==
    /\ pc = "pending"
    /\ req.path = << "/proxy/capture-customer" >>
    /\ \E outbound \in Outbound :
         \E h \in { handle_capture(req, "app-proxy", outbound) } :
             /\ response' = h.response
             /\ did' = h.did
    /\ pc' = "done"
    /\ UNCHANGED << VERIFY_APP_PROXY_HMAC, APP_SHARED_SECRET, DEFAULT_CAPTURE_TAG,
                    admin_env, req >>
    /\ UNCHANGED verifier_vars

\* main.py:244-260
hmac_check ==
    /\ pc = "pending"
    /\ req.path = << "/hmac-check" >>
    /\ LET vr == verify_app_proxy_request([ path |-> req.path, query |-> req.query ],
                                          APP_SHARED_SECRET)
           plain == [ ErrorResponse(200, "none") EXCEPT !.ok = TRUE ]
       IN  IF ~VERIFY_APP_PROXY_HMAC
           THEN /\ response' = plain
                /\ did' = NoneDone
           ELSE /\ response' = IF vr.exc # "none" THEN ErrorResponse(500, vr.exc)
                               ELSE [ plain EXCEPT !.ok = vr.ok, !.mode = vr.mode ]
                /\ did' = [ NoneDone EXCEPT !.verify_calls = 1, !.vr = vr ]
    /\ pc' = "done"
    /\ UNCHANGED << VERIFY_APP_PROXY_HMAC, APP_SHARED_SECRET, DEFAULT_CAPTURE_TAG,
                    admin_env, req >>
    /\ UNCHANGED verifier_vars

Next == capture_customer_direct \/ capture_customer_proxy \/ hmac_check

Spec == Init /\ [][Next]_vars

\* =================================================== the verifier's claims

\* The arguments of the call as the claims name them.
Q == parse_qsl_dict(full_url.query)
Shop == IF "shop" \in DOMAIN Q THEN Q["shop"] ELSE << >>
HasSignature == "signature" \in DOMAIN Q
ShopIsTrusted == endswith(Shop, TRUSTED_SUFFIX)
Called == phase \in { "verified", "tampered" }

\* The signatures of the two ampersand-joined conventions for the URL.
NoPathSignature == hex_hmac(shared_secret, sorted_qs_without_signature(Q))
WithPathSignature ==
    hex_hmac(shared_secret, with_path(full_url.path, sorted_qs_without_signature(Q)))

\* C1: whenever the shop ends with the trusted suffix, the call returns
\* ok = true, for every secret and whatever the signature parameter holds.
C1_TrustBypass == Called /\ ShopIsTrusted => ReturnsOk(result)

\* C7 as stated: a signature equal to the HMAC, keyed by the secret (empty or
\* not), of the sorted ampersand-joined parameters makes the call return ok = true.
C7_NoPath_AnySecret ==
    Called /\ HasSignature /\ Q["signature"] = NoPathSignature => ReturnsOk(result)

\* C7 amended: the same, for a secret that is not empty or a shop that is trusted.
C7_NoPath ==
    /\ Called
    /\ HasSignature
    /\ Q["signature"] = NoPathSignature
    /\ (shared_secret # << >> \/ ShopIsTrusted)
    => /\ ReturnsOk(result)
       /\ ~ShopIsTrusted => result.mode = "canonical"

\* C7's case: an untrusted shop, a secret, two parameters given out of sorted
\* order, the no-path signature in front of them, and the call accepted it.
C7_Witness ==
    /\ phase = "verified"
    /\ ~ShopIsTrusted
    /\ shared_secret # << >>
    /\ Len(full_url.query) = 3
    /\ full_url.query[1][1] = "signature"
    /\ full_url.query[2][1] = "shop"
    /\ full_url.query[3][1] = "a"
    /\ Q["signature"] = NoPathSignature
    /\ result.ok
    /\ result.mode = "canonical"

\* C8: a signature equal to the HMAC of path + "?" + the sorted ampersand-joined
\* parameters makes the call return ok = true, trusted shop or not (stated for
\* the secrets that are not empty, where the guard on a missing secret plays
\* no part).
C8_WithPath ==
    /\ Called
    /\ shared_secret # << >>
    /\ HasSignature
    /\ Q["signature"] = WithPathSignature
    => ReturnsOk(result)

QP == parse_qsl_dict(req.query)
Done == pc = "done"
ToDirect == req.path = << "/capture-customer" >>
ToProxy == req.path = << "/proxy/capture-customer" >>
ReqShop == IF "shop" \in DOMAIN QP THEN QP["shop"] ELSE << >>
ReqShopIsTrusted == endswith(ReqShop, TRUSTED_SUFFIX)

\* The signature parameter is present and is the digest of the other parameters.
SignatureMatches ==
    /\ "signature" \in DOMAIN QP
    /\ QP["signature"] = hex_hmac(APP_SHARED_SECRET, sorted_qs_without_signature(QP))

\* The request is one whose signature verification passes or is skipped.
PassesOrSkipped ==
    \/ ToDirect
    \/ /\ ToProxy
       /\ \/ ~VERIFY_APP_PROXY_HMAC
          \/ /\ APP_SHARED_SECRET # << >>
             /\ ReturnsOk(verify_app_proxy_request(
                    [ path |-> req.path, query |-> req.query ], APP_SHARED_SECRET))

NoOutboundCall == did.tag_calls = << >> /\ did.posts = 0

C3_AlwaysSuccess ==
    Done /\ PassesOrSkipped =>
        /\ response.status = 200
        /\ response.exc = "none"
        /\ response.ok
        /\ response.tagsAdd.t \in { "empty", "skipped", "response", "network_error" }

\* C4: with verification mandatory and no secret, every request to the proxied
\* alias ends in a non-success outcome before anything is extracted or called;
\* and a request to the proxied alias is processed with no verifier call only
\* when verification is disabled.
C4_MissingSecretRejects ==
    Done /\ ToProxy =>
        /\ VERIFY_APP_PROXY_HMAC /\ APP_SHARED_SECRET = << >> =>
             /\ response.status >= 400
             /\ ~response.ok
             /\ ~did.extracted
             /\ NoOutboundCall
        /\ (did.extracted \/ response.status = 200) /\ did.verify_calls = 0 =>
             ~VERIFY_APP_PROXY_HMAC

\* C4's case: no secret, a trusted shop, an identifier and the signature an
\* empty secret would give; rejected.
C4_Witness ==
    /\ Done
    /\ ToProxy
    /\ VERIFY_APP_PROXY_HMAC
    /\ APP_SHARED_SECRET = << >>
    /\ ReqShopIsTrusted
    /\ SignatureMatches
    /\ "cid" \in DOMAIN QP
    /\ QP["cid"] = << "4", "a" >>
    /\ response.status = 500
    /\ did.tag_calls = << >>

\* Every character of s is a digit.
DigitsOnly(s) == \A i \in DOMAIN s : isdigit(s[i])

\* C5: a request whose extracted identifier is empty makes no call of
\* add_customer_tags and is answered with success (ok true, customer_id null,
\* an empty tagsAdd); and every call of add_customer_tags has an identifier
\* that is non-empty and digits only.
C5_MissingIdNoOp ==
    Done /\ did.extracted =>
        /\ did.customer_id = << >> =>
             /\ did.tag_calls = << >>
             /\ response.status = 200
             /\ response.ok
             /\ response.customer_id = JNone
             /\ response.tagsAdd.t = "empty"
        /\ \A i \in DOMAIN did.tag_calls :
             /\ did.tag_calls[i].customer_id # << >>
             /\ DigitsOnly(did.tag_calls[i].customer_id)

\* The tag list the request asks for: the raw string (tags, else tag) split on
\* commas, each piece trimmed, the empty pieces dropped.
RequestedTags ==
    LET raw == IF "tags" \in DOMAIN QP THEN QP["tags"]
               ELSE IF "tag" \in DOMAIN QP THEN QP["tag"]
               ELSE << >>
    IN  stripped_nonempty(split_comma(raw, << >>))

\* C6: with a default tag configured, a request whose normalised tag list is
\* empty is tagged with exactly the default tag, and no call of
\* add_customer_tags has an empty tag list.
C6_DefaultTag ==
    Done /\ DEFAULT_CAPTURE_TAG # << >> =>
        \A i \in DOMAIN did.tag_calls :
            /\ did.tag_calls[i].tags # << >>
            /\ RequestedTags = << >> => did.tag_calls[i].tags = << DEFAULT_CAPTURE_TAG >>

\* C10: a request to the direct alias never reaches require_hmac, is never
\* rejected by verification, and is tagged whenever its extracted identifier
\* is not empty.
C10_DirectUnverified ==
    Done /\ ToDirect =>
        /\ did.require_hmac_calls = 0
        /\ did.verify_calls = 0
        /\ response.status # 403
        /\ response.exc \notin { "HTTPException", "TypeError" }
        /\ did.extracted /\ did.customer_id # << >> => did.tag_calls # << >>

====
